---- MODULE Spec2Model ----
(***************************************************************************)
(* Model of the client-side geometric algorithms of the comp-geo notebook  *)
(* pages and of the page state that feeds them.                            *)
(*                                                                         *)
(* Coordinates are integers (canvas pixels); every product and sum of the  *)
(* algorithms is then exact in IEEE doubles, and a quotient is kept as an  *)
(* exact fraction.                                                         *)
(***************************************************************************)
EXTENDS Integers, Sequences, FiniteSets, TLC

\* ------------------------------------------------------------------ bounds
TriMaxX == 2
TriMaxY == 2
MaxTriPoints == 5
QuadMaxX == 3
QuadMaxY == 2
HullMaxX == 2
HullMaxY == 2
MaxHullPoints == 5
SegMaxX == 2
SegMaxY == 2
MaxLines == 3
SlopeDen == 1
ArrGrid == 2
MaxArrLines == 3
GeoLatCount == 4
GeoLonCount == 2
MaxGeoComputations == 3
PrimMaxX == 1
PrimMaxY == 1
MaxPrimPoints == 3

\* ----------------------------------------------------------------- helpers
Abs(v) == IF v < 0 THEN 0 - v ELSE v

RECURSIVE SumSeq(_)
SumSeq(s) == IF s = <<>> THEN 0 ELSE Head(s) + SumSeq(Tail(s))

Min2(a, b) == IF a <= b THEN a ELSE b
Max2(a, b) == IF a >= b THEN a ELSE b

\* The arithmetic below is written as functions: a function's arguments
\* are evaluated once, before its body.
GCDOf[a \in Nat, b \in Nat] == IF b = 0 THEN a ELSE GCDOf[b, a % b]

GCD(a, b) == GCDOf[a, b]

\* The double n / d for integers n and d, kept exact and in lowest terms
\* with a positive denominator; d = 0 gives what IEEE division gives:
\* 0/0 = NaN (n = 0, d = 0) and n/0 = +-Infinity (n = +-1, d = 0).
FracOf[n \in Int, d \in Int] ==
  IF d = 0 THEN [n |-> IF n > 0 THEN 1 ELSE IF n < 0 THEN 0 - 1 ELSE 0, d |-> 0]
  ELSE LET g == GCD(Abs(n), Abs(d))
           sgn == IF d < 0 THEN 0 - 1 ELSE 1
       IN [n |-> sgn * (n \div g), d |-> Abs(d) \div g]

Frac(n, d) == FracOf[n, d]

IsNaN(f) == f.d = 0 /\ f.n = 0

\* f >= k and f <= k for a quotient f and an integer k (false on NaN)
FracGe(f, k) == IF f.d = 0 THEN f.n > 0 ELSE f.n >= k * f.d
FracLe(f, k) == IF f.d = 0 THEN f.n < 0 ELSE f.n <= k * f.d

FracMul(f, g) == Frac(f.n * g.n, f.d * g.d)

\* ---- exact numbers a + b sqrt(2) + c sqrt(3) + d sqrt(6) over den: the
\* field of the sines and cosines of the multiples of 15 degrees
FGcd(a, b, c, d, den) == GCD(GCD(GCD(GCD(Abs(den), Abs(a)), Abs(b)), Abs(c)), Abs(d))

FOf[a \in Int, b \in Int, c \in Int, d \in Int, den \in Int] ==
  LET g == FGcd(a, b, c, d, den)
      sgn == IF den < 0 THEN 0 - 1 ELSE 1
  IN [a |-> sgn * (a \div g), b |-> sgn * (b \div g), c |-> sgn * (c \div g),
      d |-> sgn * (d \div g), den |-> Abs(den) \div g]

F(a, b, c, d, den) == FOf[a, b, c, d, den]

FSet == [a : Int, b : Int, c : Int, d : Int, den : Int]

FInt(n) == F(n, 0, 0, 0, 1)
FZero == FInt(0)
FOne == FInt(1)

FAddOf[u \in FSet, v \in FSet] ==
  F(u.a * v.den + v.a * u.den, u.b * v.den + v.b * u.den,
    u.c * v.den + v.c * u.den, u.d * v.den + v.d * u.den, u.den * v.den)

FAdd(u, v) == FAddOf[u, v]

FNegOf[u \in FSet] == F(0 - u.a, 0 - u.b, 0 - u.c, 0 - u.d, u.den)

FNeg(u) == FNegOf[u]

FSub(u, v) == FAdd(u, FNeg(v))

FMulOf[u \in FSet, v \in FSet] ==
  F(u.a * v.a + 2 * u.b * v.b + 3 * u.c * v.c + 6 * u.d * v.d,
    u.a * v.b + u.b * v.a + 3 * (u.c * v.d + u.d * v.c),
    u.a * v.c + u.c * v.a + 2 * (u.b * v.d + u.d * v.b),
    u.a * v.d + u.d * v.a + u.b * v.c + u.c * v.b,
    u.den * v.den)

FMul(u, v) == FMulOf[u, v]

FDivIntOf[u \in FSet, n \in Int] == F(u.a, u.b, u.c, u.d, u.den * n)

FDivInt(u, n) == FDivIntOf[u, n]

\* The sign of u, from the roots to four decimals; the rounding of the
\* three roots moves the sum by less than |b| + |c| + |d|, and no number
\* of the sphere grid is that close to zero without being zero.
FSignOf[u \in FSet] ==
  LET approx == u.a * 10000 + u.b * 14142 + u.c * 17321 + u.d * 24495
      slack == Abs(u.b) + Abs(u.c) + Abs(u.d)
  IN IF u = FZero THEN 0
     ELSE IF approx > slack THEN 1
     ELSE IF approx < 0 - slack THEN 0 - 1
     ELSE CHOOSE undecided \in {} : TRUE

FSign(u) == FSignOf[u]

FLess(u, v) == FSign(FSub(u, v)) < 0

FMinOf[u \in FSet, v \in FSet] == IF FLess(v, u) THEN v ELSE u
FMaxOf[u \in FSet, v \in FSet] == IF FLess(u, v) THEN v ELSE u

FMin(u, v) == FMinOf[u, v]
FMax(u, v) == FMaxOf[u, v]

\* Math.sin and Math.cos at a multiple of 15 degrees (the angle in degrees)
SinDegOf[deg \in Int] ==
  LET r == deg % 360
      q == IF r <= 90 THEN r ELSE IF r <= 180 THEN 180 - r
           ELSE IF r <= 270 THEN r - 180 ELSE 360 - r
      v == CASE q = 0 -> F(0, 0, 0, 0, 4)
             [] q = 15 -> F(0, 0 - 1, 0, 1, 4)
             [] q = 30 -> F(2, 0, 0, 0, 4)
             [] q = 45 -> F(0, 2, 0, 0, 4)
             [] q = 60 -> F(0, 0, 2, 0, 4)
             [] q = 75 -> F(0, 1, 0, 1, 4)
             [] q = 90 -> F(4, 0, 0, 0, 4)
  IN IF r <= 180 THEN v ELSE FNeg(v)

SinDeg(deg) == SinDegOf[deg]

CosDeg(deg) == SinDeg(deg + 90)

VARIABLES triPoints, triangles, hullPoints, hull, lines, intersections,
          arrLines, arrIntersections,
          selectedPoints, geodesic, isDragging, geoUpdateScheduled, geoComputations,
          primPoints, mode, activePoint, measurements, primMounted

triVars == <<triPoints, triangles>>
hullVars == <<hullPoints, hull>>
segVars == <<lines, intersections>>
arrVars == <<arrLines, arrIntersections>>
geoVars == <<selectedPoints, geodesic, isDragging, geoUpdateScheduled, geoComputations>>
primVars == <<primPoints, mode, activePoint, measurements, primMounted>>
vars == <<triPoints, triangles, hullPoints, hull, lines, intersections,
          arrLines, arrIntersections,
          selectedPoints, geodesic, isDragging, geoUpdateScheduled, geoComputations,
          primPoints, mode, activePoint, measurements, primMounted>>

\* =================================================== triangulation.tsx
\* A Point object of the triangulation page.  `id` stands for the object's
\* identity (=== in the source compares references): the page creates one
\* object per click, so the id is the click's position in the list.
TriPoint(i, x, y) == [id |-> i, x |-> x, y |-> y]

ccw(A, B, C) == (C.y - A.y) * (B.x - A.x) - (B.y - A.y) * (C.x - A.x)

\* the tester with <= in place of < in its last line
doSegmentsIntersectInclusive(p1, p2, p3, p4) ==
  LET a == ccw(p1, p2, p3)
      b == ccw(p1, p2, p4)
      c == ccw(p3, p4, p1)
      d == ccw(p3, p4, p2)
  IN IF p1.id = p3.id \/ p1.id = p4.id \/ p2.id = p3.id \/ p2.id = p4.id
     THEN FALSE
     ELSE (a * b <= 0) /\ (c * d <= 0)

doSegmentsIntersect(p1, p2, p3, p4) ==
  LET a == ccw(p1, p2, p3)
      b == ccw(p1, p2, p4)
      c == ccw(p3, p4, p1)
      d == ccw(p3, p4, p2)
  IN IF p1.id = p3.id \/ p1.id = p4.id \/ p2.id = p3.id \/ p2.id = p4.id
     THEN FALSE
     ELSE (a * b < 0) /\ (c * d < 0)

crossProduct(o, a, b) == (a.x - o.x) * (b.y - o.y) - (a.y - o.y) * (b.x - o.x)

\* 1-based ring neighbours: polygon[(i - 1 + n) % n] and polygon[(i + 1) % n]
PrevIdx(i, n) == ((i - 2 + n) % n) + 1
NextIdx(i, n) == (i % n) + 1

isValidDiagonal(start, end, polygon) ==
  \A i \in 1..Len(polygon) :
    LET next == NextIdx(i, Len(polygon))
    IN \/ polygon[i].id = start.id \/ polygon[i].id = end.id
       \/ polygon[next].id = start.id \/ polygon[next].id = end.id
       \/ ~doSegmentsIntersect(start, end, polygon[i], polygon[next])

sign(p1, p2, p3) == (p1.x - p3.x) * (p2.y - p3.y) - (p2.x - p3.x) * (p1.y - p3.y)

\* the test for one orientation only: no negative sign
pointInTriangleNoNeg(pt, v1, v2, v3) ==
  LET d1 == sign(pt, v1, v2)
      d2 == sign(pt, v2, v3)
      d3 == sign(pt, v3, v1)
  IN ~((d1 < 0) \/ (d2 < 0) \/ (d3 < 0))

pointInTriangle(pt, v1, v2, v3) ==
  LET d1 == sign(pt, v1, v2)
      d2 == sign(pt, v2, v3)
      d3 == sign(pt, v3, v1)
      hasNeg == (d1 < 0) \/ (d2 < 0) \/ (d3 < 0)
      hasPos == (d1 > 0) \/ (d2 > 0) \/ (d3 > 0)
  IN ~(hasNeg /\ hasPos)

\* isEar without the scan for vertices inside the candidate triangle
isEarNoInsideScan(polygon, i) ==
  LET n == Len(polygon)
      prev == polygon[PrevIdx(i, n)]
      curr == polygon[i]
      next == polygon[NextIdx(i, n)]
  IN /\ crossProduct(prev, curr, next) > 0
     /\ isValidDiagonal(prev, next, polygon)

isEar(polygon, i) ==
  LET n == Len(polygon)
      prev == polygon[PrevIdx(i, n)]
      curr == polygon[i]
      next == polygon[NextIdx(i, n)]
  IN /\ crossProduct(prev, curr, next) > 0
     /\ isValidDiagonal(prev, next, polygon)
     /\ \A k \in 1..n :
          LET p == polygon[k]
          IN \/ p.id = prev.id \/ p.id = curr.id \/ p.id = next.id
             \/ ~pointInTriangle(p, prev, curr, next)

\* a splice that deletes two entries: polygonCopy.splice(i, 2)
SpliceTwo(s, i) == [k \in 1..(Len(s) - 2) |-> IF k < i THEN s[k] ELSE s[k + 2]]

\* polygonCopy.splice(i, 1)
Splice(s, i) == [k \in 1..(Len(s) - 1) |-> IF k < i THEN s[k] ELSE s[k + 1]]

\* a scan that takes the last ear of the ring in place of the first
LastEar(polygonCopy) ==
  LET ears == {i \in 1..Len(polygonCopy) : isEar(polygonCopy, i)}
  IN IF ears = {} THEN 0 ELSE CHOOSE i \in ears : \A j \in ears : i >= j

\* One pass of the while loop: the first i with isEar, or 0 when none.
FirstEar(polygonCopy) ==
  LET ears == {i \in 1..Len(polygonCopy) : isEar(polygonCopy, i)}
  IN IF ears = {} THEN 0 ELSE CHOOSE i \in ears : \A j \in ears : i <= j

\* The while loop, as the pair (polygonCopy, triangles) it leaves behind.
RECURSIVE ClipLoop(_, _)
ClipLoop(polygonCopy, tris) ==
  IF Len(polygonCopy) > 3
  THEN LET i == FirstEar(polygonCopy)
           n == Len(polygonCopy)
       IN IF i = 0
          THEN [polygonCopy |-> polygonCopy, triangles |-> tris]
          ELSE ClipLoop(Splice(polygonCopy, i),
                        Append(tris, <<polygonCopy[PrevIdx(i, n)],
                                       polygonCopy[i],
                                       polygonCopy[NextIdx(i, n)]>>))
  ELSE [polygonCopy |-> polygonCopy, triangles |-> tris]

\* The passes of the while loop, in order: the ring polygonCopy a pass
\* starts with, the index i its for loop stops at (0: no ear, `break`), and
\* the ring it leaves.
RECURSIVE ClipPasses(_)
ClipPasses(polygonCopy) ==
  IF Len(polygonCopy) > 3
  THEN LET i == FirstEar(polygonCopy)
       IN IF i = 0
          THEN <<[polygonCopy |-> polygonCopy, i |-> 0, after |-> polygonCopy]>>
          ELSE <<[polygonCopy |-> polygonCopy, i |-> i, after |-> Splice(polygonCopy, i)]>>
                 \o ClipPasses(Splice(polygonCopy, i))
  ELSE <<>>

\* a final push without the test polygonCopy.length === 3
earClipAlwaysFinal(polygon) ==
  IF Len(polygon) < 3 THEN <<>>
  ELSE LET r == ClipLoop(polygon, <<>>)
       IN Append(r.triangles, SubSeq(r.polygonCopy, 1, 3))

earClipTriangulation(polygon) ==
  IF Len(polygon) < 3 THEN <<>>
  ELSE LET r == ClipLoop(polygon, <<>>)
       IN IF Len(r.polygonCopy) = 3
          THEN Append(r.triangles, r.polygonCopy)
          ELSE r.triangles

\* ---- page handlers
\* generateTriangles: alert and return below three points
generateTriangles ==
  /\ Len(triPoints) >= 3
  /\ triangles' = earClipTriangulation(triPoints)
  /\ UNCHANGED triPoints
  /\ UNCHANGED <<hullVars, segVars, arrVars, geoVars, primVars>>

generateTrianglesAlert ==
  /\ Len(triPoints) < 3
  /\ UNCHANGED vars

triHandleCanvasClick ==
  /\ Len(triPoints) < MaxTriPoints
  /\ \E x \in 0..TriMaxX, y \in 0..TriMaxY :
       triPoints' = Append(triPoints, TriPoint(Len(triPoints) + 1, x, y))
  /\ UNCHANGED triangles
  /\ UNCHANGED <<hullVars, segVars, arrVars, geoVars, primVars>>

triHandleClear ==
  /\ triPoints' = <<>>
  /\ triangles' = <<>>
  /\ UNCHANGED <<hullVars, segVars, arrVars, geoVars, primVars>>

\* ========================================== delaunay.tsx (convex hull page)
Point(x, y) == [x |-> x, y |-> y]

\* the sort comparator (a, b) => a.x - b.x || a.y - b.y, as "a sorts before
\* or with b"
compareXOnlyLeq(a, b) == a.x <= b.x

compareLeq(a, b) == a.x < b.x \/ (a.x = b.x /\ a.y <= b.y)

\* [...inputPoints].sort(cmp): Array.prototype.sort is stable, so it is an
\* insertion sort that puts an element after the elements it ties with
RECURSIVE InsertSorted(_, _)
InsertSorted(sorted, p) ==
  IF sorted = <<>> THEN <<p>>
  ELSE IF compareLeq(Head(sorted), p)
       THEN <<Head(sorted)>> \o InsertSorted(Tail(sorted), p)
       ELSE <<p>> \o sorted

RECURSIVE SortPoints(_)
SortPoints(s) ==
  IF s = <<>> THEN <<>>
  ELSE InsertSorted(SortPoints(SubSeq(s, 1, Len(s) - 1)), s[Len(s)])

Reverse(s) == [k \in 1..Len(s) |-> s[Len(s) + 1 - k]]

\* the cross product with its two terms exchanged
crossNegated(o, a, b) == (a.y - o.y) * (b.x - o.x) - (a.x - o.x) * (b.y - o.y)

cross(o, a, b) == (a.x - o.x) * (b.y - o.y) - (a.y - o.y) * (b.x - o.x)

\* the pop condition with < in place of <=
mustPopStrict(chain, p) ==
  Len(chain) >= 2 /\ cross(chain[Len(chain) - 1], chain[Len(chain)], p) < 0

\* the while condition of both chain loops
mustPop(chain, p) ==
  Len(chain) >= 2 /\ cross(chain[Len(chain) - 1], chain[Len(chain)], p) <= 0

Pop(chain) == SubSeq(chain, 1, Len(chain) - 1)

\* while (mustPop) chain.pop(); chain.push(p)
RECURSIVE PopWhile(_, _)
PopWhile(chain, p) == IF mustPop(chain, p) THEN PopWhile(Pop(chain), p) ELSE chain

RECURSIVE BuildChain(_, _)
BuildChain(chain, rest) ==
  IF rest = <<>> THEN chain
  ELSE BuildChain(Append(PopWhile(chain, Head(rest)), Head(rest)), Tail(rest))

\* lower.concat(upper) without the two pops
concatNoPop(lower, upper) == lower \o upper

\* upper.pop(); lower.pop(); return lower.concat(upper)
concatChains(lower, upper) == Pop(lower) \o Pop(upper)

calculateConvexHull(inputPoints) ==
  IF Len(inputPoints) < 3 THEN inputPoints
  ELSE LET sortedPoints == SortPoints(inputPoints)
           lower == BuildChain(<<>>, sortedPoints)
           upper == BuildChain(<<>>, Reverse(sortedPoints))
       IN concatChains(lower, upper)

\* a click handler that computes the hull of the points before the click
hullHandleCanvasClickStale ==
  /\ Len(hullPoints) < MaxHullPoints
  /\ \E x \in 0..HullMaxX, y \in 0..HullMaxY :
       LET newPoints == Append(hullPoints, Point(x, y))
       IN /\ hullPoints' = newPoints
          /\ hull' = calculateConvexHull(hullPoints)
  /\ UNCHANGED <<triVars, segVars, arrVars, geoVars, primVars>>

hullHandleCanvasClick ==
  /\ Len(hullPoints) < MaxHullPoints
  /\ \E x \in 0..HullMaxX, y \in 0..HullMaxY :
       LET newPoints == Append(hullPoints, Point(x, y))
       IN /\ hullPoints' = newPoints
          /\ hull' = calculateConvexHull(newPoints)
  /\ UNCHANGED <<triVars, segVars, arrVars, geoVars, primVars>>

hullHandleClear ==
  /\ hullPoints' = <<>>
  /\ hull' = <<>>
  /\ UNCHANGED <<triVars, segVars, arrVars, geoVars, primVars>>

\* ================================================== line-intersection.tsx
\* null, for Line.end while the line is under construction and for the
\* result of calculateIntersection
null == [null |-> TRUE]

Line(start, end) == [start |-> start, end |-> end]

\* the bounds test with < and > in place of <= and >=
isPointOnSegmentStrict(point, segmentStart, segmentEnd) ==
  LET minX == Min2(segmentStart.x, segmentEnd.x)
      maxX == Max2(segmentStart.x, segmentEnd.x)
      minY == Min2(segmentStart.y, segmentEnd.y)
      maxY == Max2(segmentStart.y, segmentEnd.y)
  IN /\ FracGe(point.x, minX) /\ point.x # Frac(minX, 1)
     /\ FracLe(point.x, maxX) /\ point.x # Frac(maxX, 1)
     /\ FracGe(point.y, minY) /\ point.y # Frac(minY, 1)
     /\ FracLe(point.y, maxY) /\ point.y # Frac(maxY, 1)

\* point has quotient coordinates, the segment ends integer ones
isPointOnSegment(point, segmentStart, segmentEnd) ==
  LET minX == Min2(segmentStart.x, segmentEnd.x)
      maxX == Max2(segmentStart.x, segmentEnd.x)
      minY == Min2(segmentStart.y, segmentEnd.y)
      maxY == Max2(segmentStart.y, segmentEnd.y)
  IN /\ FracGe(point.x, minX)
     /\ FracLe(point.x, maxX)
     /\ FracGe(point.y, minY)
     /\ FracLe(point.y, maxY)

\* the determinant with the sign of its second product flipped
determinantPlus(a1, b1, a2, b2) == a1 * b2 + a2 * b1

determinant(a1, b1, a2, b2) == a1 * b2 - a2 * b1

\* the bounds test applied to the first segment only
calculateIntersectionFirstOnly(line1, line2) ==
  IF line1.end = null \/ line2.end = null THEN null
  ELSE LET p1 == line1.start
           q1 == line1.end
           p2 == line2.start
           q2 == line2.end
           a1 == q1.y - p1.y
           b1 == p1.x - q1.x
           c1 == a1 * p1.x + b1 * p1.y
           a2 == q2.y - p2.y
           b2 == p2.x - q2.x
           c2 == a2 * p2.x + b2 * p2.y
           det == determinant(a1, b1, a2, b2)
           x == Frac(b2 * c1 - b1 * c2, det)
           y == Frac(a1 * c2 - a2 * c1, det)
           intersectionPoint == [x |-> x, y |-> y]
       IN IF det = 0 THEN null
          ELSE IF isPointOnSegment(intersectionPoint, p1, q1)
               THEN intersectionPoint
               ELSE null

calculateIntersection(line1, line2) ==
  IF line1.end = null \/ line2.end = null THEN null
  ELSE LET p1 == line1.start
           q1 == line1.end
           p2 == line2.start
           q2 == line2.end
           a1 == q1.y - p1.y
           b1 == p1.x - q1.x
           c1 == a1 * p1.x + b1 * p1.y
           a2 == q2.y - p2.y
           b2 == p2.x - q2.x
           c2 == a2 * p2.x + b2 * p2.y
           det == determinant(a1, b1, a2, b2)
           x == Frac(b2 * c1 - b1 * c2, det)
           y == Frac(a1 * c2 - a2 * c1, det)
           intersectionPoint == [x |-> x, y |-> y]
       IN IF det = 0 THEN null
          ELSE IF /\ isPointOnSegment(intersectionPoint, p1, q1)
                  /\ isPointOnSegment(intersectionPoint, p2, q2)
               THEN intersectionPoint
               ELSE null

\* the pairs (i, j), i < j, in the order of the two nested loops
RECURSIVE PairsFrom(_, _, _)
PairsFrom(i, j, n) ==
  IF i > n THEN <<>>
  ELSE IF j > n THEN PairsFrom(i + 1, i + 2, n)
       ELSE <<(<<i, j>>)>> \o PairsFrom(i, j + 1, n)

RECURSIVE CollectIntersections(_, _)
CollectIntersections(ls, pairs) ==
  IF pairs = <<>> THEN <<>>
  ELSE LET intersection == calculateIntersection(ls[Head(pairs)[1]], ls[Head(pairs)[2]])
       IN (IF intersection # null THEN <<intersection>> ELSE <<>>)
            \o CollectIntersections(ls, Tail(pairs))

calculateIntersections(ls) == CollectIntersections(ls, PairsFrom(1, 2, Len(ls)))

\* handleCanvasClick, first branch: start a new line
segStartLine ==
  /\ IF Len(lines) = 0 THEN TRUE ELSE lines[Len(lines)].end # null
  /\ Len(lines) < MaxLines
  /\ \E x \in 0..SegMaxX, y \in 0..SegMaxY :
       lines' = Append(lines, Line(Point(x, y), null))
  /\ UNCHANGED intersections
  /\ UNCHANGED <<triVars, hullVars, arrVars, geoVars, primVars>>

\* a second branch that leaves out setIntersections(newIntersections)
segCompleteLineNoRecompute ==
  /\ IF Len(lines) = 0 THEN FALSE ELSE lines[Len(lines)].end = null
  /\ \E x \in 0..SegMaxX, y \in 0..SegMaxY :
       lines' = [lines EXCEPT ![Len(lines)].end = Point(x, y)]
  /\ UNCHANGED intersections
  /\ UNCHANGED <<triVars, hullVars, arrVars, geoVars, primVars>>

\* handleCanvasClick, second branch: complete the current line
segCompleteLine ==
  /\ IF Len(lines) = 0 THEN FALSE ELSE lines[Len(lines)].end = null
  /\ \E x \in 0..SegMaxX, y \in 0..SegMaxY :
       LET updatedLines == [lines EXCEPT ![Len(lines)].end = Point(x, y)]
       IN /\ lines' = updatedLines
          /\ intersections' = calculateIntersections(updatedLines)
  /\ UNCHANGED <<triVars, hullVars, arrVars, geoVars, primVars>>

\* a clear that forgets setIntersections([])
segHandleClearLinesOnly ==
  /\ lines' = <<>>
  /\ UNCHANGED intersections
  /\ UNCHANGED <<triVars, hullVars, arrVars, geoVars, primVars>>

segHandleClear ==
  /\ lines' = <<>>
  /\ intersections' = <<>>
  /\ UNCHANGED <<triVars, hullVars, arrVars, geoVars, primVars>>

\* ============================================ part_002 (ArrangementPage)
\* useState({ width: 800, height: 400 })
boundsWidth == 800
boundsHeight == 400

\* A Line {m, b} holds two reals.  Slopes are the multiples of 1/SlopeDen in
\* [-2, 2) (Math.random() * 4 - 2), clicks are on an ArrGrid x ArrGrid
\* lattice of the SVG rectangle; m and b are both kept as numerators over
\* SlopeDen.
Slopes == (0 - 2 * SlopeDen)..(2 * SlopeDen - 1)
ClickXs == {i * (boundsWidth \div ArrGrid) : i \in 0..ArrGrid}
ClickYs == {i * (boundsHeight \div ArrGrid) : i \in 0..ArrGrid}

\* yIntercept = svgPoint.y - slope * svgPoint.x
ArrLine(slope, px, py) == [m |-> slope, b |-> SlopeDen * py - slope * px]

\* x >= 0 && x <= bounds.width && y >= 0 && y <= bounds.height with the
\* lower bounds strict
withinBoundsStrict(x, y) ==
  /\ FracGe(x, 0) /\ x # Frac(0, 1) /\ FracLe(x, boundsWidth)
  /\ FracGe(y, 0) /\ y # Frac(0, 1) /\ FracLe(y, boundsHeight)

withinBounds(x, y) ==
  /\ FracGe(x, 0) /\ FracLe(x, boundsWidth)
  /\ FracGe(y, 0) /\ FracLe(y, boundsHeight)

\* the body of the two loops for one pair: <<point>> or <<>>
\* x = (b2 - b1) / (m1 - m2), y = m1 * x + b1, with m = line.m / SlopeDen
\* and b = line.b / SlopeDen
pairIntersection(line1, line2) ==
  IF line1.m = line2.m THEN <<>>
  ELSE LET x == Frac(line2.b - line1.b, line1.m - line2.m)
           y == Frac(line1.m * (line2.b - line1.b) + line1.b * (line1.m - line2.m),
                     SlopeDen * (line1.m - line2.m))
       IN IF withinBounds(x, y) THEN <<[x |-> x, y |-> y]>> ELSE <<>>

RECURSIVE CollectArrangement(_, _)
CollectArrangement(ls, pairs) ==
  IF pairs = <<>> THEN <<>>
  ELSE pairIntersection(ls[Head(pairs)[1]], ls[Head(pairs)[2]])
         \o CollectArrangement(ls, Tail(pairs))

\* the useMemo over [lines, bounds]
arrangementIntersections(ls) == CollectArrangement(ls, PairsFrom(1, 2, Len(ls)))

\* handleCanvasClick and the re-render that recomputes the memo
arrHandleCanvasClick ==
  /\ Len(arrLines) < MaxArrLines
  /\ \E slope \in Slopes, px \in ClickXs, py \in ClickYs :
       LET newLines == Append(arrLines, ArrLine(slope, px, py))
       IN /\ arrLines' = newLines
          /\ arrIntersections' = arrangementIntersections(newLines)
  /\ UNCHANGED <<triVars, hullVars, segVars, geoVars, primVars>>

arrHandleClear ==
  /\ arrLines' = <<>>
  /\ arrIntersections' = arrangementIntersections(<<>>)
  /\ UNCHANGED <<triVars, hullVars, segVars, geoVars, primVars>>

\* ============================================================ geodesic.tsx
SPHERE_RADIUS == 150
EARTH_RADIUS == 6371
segments == 12
steps == 50

\* generateSpherePoints: the point pushed for (lat, lon), angles in degrees;
\* phi = (90 - lat) * PI / 180 and theta = (180 - lon) * PI / 180
SpherePointOf[lat \in Int, lon \in Int] ==
  LET phi == 90 - lat
      theta == 180 - lon
  IN [x |-> FMul(FInt(SPHERE_RADIUS), FMul(SinDeg(phi), CosDeg(theta))),
      y |-> FMul(FInt(SPHERE_RADIUS), FMul(SinDeg(phi), SinDeg(theta))),
      z |-> FMul(FInt(SPHERE_RADIUS), CosDeg(phi)),
      phi |-> phi, theta |-> theta]

SpherePoint(lat, lon) == SpherePointOf[lat, lon]

\* basePoints[index], 0-based: the outer loop runs lat = -90, -75, .., 90 and
\* the inner loop lon = -180, -150, .., 150
NumBasePoints == (segments + 1) * segments

basePoints(index) ==
  SpherePoint((index \div segments) * (180 \div segments) - 90,
              (index % segments) * (360 \div segments) - 180)

\* ---- the values computeSphericalGeodesic works with
\* An angle (k / steps) * acos(dot), for an exact dot
Acos(dot) == [dot |-> dot, k |-> steps]

\* angle * t for t = i / steps
AngleTimes(angle, i) == [dot |-> angle.dot, k |-> (angle.k * i) \div steps]

AngleMinus(angle, sub) == [dot |-> angle.dot, k |-> angle.k - sub.k]

\* Math.sin of such an angle: 0 exactly when the angle is 0 (k = 0, or
\* dot = 1 and so acos(dot) = 0); otherwise the positive number
\* sin((k / steps) * acos(dot)), kept as a symbol.  Math.acos(-1) is the
\* double nearest to pi and its sine is 1.22e-16, not 0, so the angle pi is
\* no zero of Math.sin.
MathSin(angle) ==
  IF angle.k = 0 \/ angle.dot = FOne
  THEN [zero |-> TRUE, dot |-> FOne, k |-> 0]
  ELSE [zero |-> FALSE, dot |-> angle.dot, k |-> angle.k]

Num(v) == [kind |-> "num", v |-> v]
NaN == [kind |-> "nan"]
Infinite == [kind |-> "inf"]

\* the sum u * su + v * sv of two products of an exact number and a sine, as
\* the list of its non-zero terms
SineTerms(u, su, v, sv) ==
  LET t1 == IF u = FZero \/ su.zero THEN <<>> ELSE <<[c |-> u, s |-> su]>>
      t2 == IF v = FZero \/ sv.zero THEN <<>> ELSE <<[c |-> v, s |-> sv]>>
  IN IF t1 # <<>> /\ t2 # <<>> /\ su = sv
     THEN (IF FAdd(u, v) = FZero THEN <<>> ELSE <<[c |-> FAdd(u, v), s |-> su]>>)
     ELSE t1 \o t2

\* (startPoint.x * sinComplAngle + endPoint.x * sinSubAngle) / sinAngle
\* 0 / 0 is NaN, a non-zero numerator over 0 is +-Infinity
slerpCoordinate(sv, sinComplAngle, ev, sinSubAngle, sinAngle) ==
  LET terms == SineTerms(sv, sinComplAngle, ev, sinSubAngle)
  IN IF sinAngle.zero
     THEN (IF terms = <<>> THEN NaN ELSE Infinite)
     ELSE IF terms = <<>> THEN Num(FZero)
     ELSE IF Len(terms) = 1 /\ terms[1].s = sinAngle THEN Num(terms[1].c)
     ELSE [kind |-> "expr", terms |-> terms, over |-> sinAngle]

\* SPHERE_RADIUS * angle and its multiples: coef * acos(dot), 0 when the
\* angle is 0
AngleMultiple(coef, angle) ==
  IF angle.dot = FOne THEN [coef |-> Frac(0, 1), dot |-> FOne]
  ELSE [coef |-> coef, dot |-> angle.dot]

\* Math.sqrt(radicand) and its multiples: coef * sqrt(radicand)
RootMultiple(coef, radicand) ==
  IF radicand = FZero THEN [coef |-> Frac(0, 1), radicand |-> FZero]
  ELSE [coef |-> coef, radicand |-> radicand]

\* scaleFactor with numerator and denominator exchanged
scaleFactorInverse == Frac(SPHERE_RADIUS, EARTH_RADIUS)

scaleFactor == Frac(EARTH_RADIUS, SPHERE_RADIUS)

\* the path entry pushed in loop round i
pathPoint(startPoint, endPoint, angle, i) ==
  LET subAngle == AngleTimes(angle, i)
      sinSubAngle == MathSin(subAngle)
      sinComplAngle == MathSin(AngleMinus(angle, subAngle))
      sinAngle == MathSin(angle)
  IN [x |-> slerpCoordinate(startPoint.x, sinComplAngle, endPoint.x, sinSubAngle, sinAngle),
      y |-> slerpCoordinate(startPoint.y, sinComplAngle, endPoint.y, sinSubAngle, sinAngle),
      z |-> slerpCoordinate(startPoint.z, sinComplAngle, endPoint.z, sinSubAngle, sinAngle),
      phi |-> 0, theta |-> 0]

Point3DSet == [x : FSet, y : FSet, z : FSet, phi : Int, theta : Int]

\* the statements after `const angle = ...`
geodesicResult[startPoint \in Point3DSet, endPoint \in Point3DSet,
               angle \in [dot : FSet, k : Int]] ==
  LET path == [k \in 1..(steps + 1) |-> pathPoint(startPoint, endPoint, angle, k - 1)]
      length == AngleMultiple(Frac(SPHERE_RADIUS, 1), angle)
      dx == FSub(endPoint.x, startPoint.x)
      dy == FSub(endPoint.y, startPoint.y)
      dz == FSub(endPoint.z, startPoint.z)
      straightDistance ==
        RootMultiple(Frac(1, 1), FAdd(FAdd(FMul(dx, dx), FMul(dy, dy)), FMul(dz, dz)))
  IN [path |-> path,
      length |-> [length EXCEPT !.coef = FracMul(length.coef, scaleFactor)],
      straightDistance |->
        [straightDistance EXCEPT !.coef = FracMul(straightDistance.coef, scaleFactor)],
      startCoords |-> [lat |-> 90 - startPoint.phi, lon |-> 180 - startPoint.theta],
      endCoords |-> [lat |-> 90 - endPoint.phi, lon |-> 180 - endPoint.theta]]

\* dot and angle = Math.acos(Math.max(-1, Math.min(1, dot)))
angleBetween[startPoint \in Point3DSet, endPoint \in Point3DSet] ==
  Acos(FMax(FInt(0 - 1),
            FMin(FOne,
                 FDivInt(FAdd(FAdd(FMul(startPoint.x, endPoint.x),
                                   FMul(startPoint.y, endPoint.y)),
                              FMul(startPoint.z, endPoint.z)),
                         SPHERE_RADIUS * SPHERE_RADIUS))))

computeSphericalGeodesic(startPoint, endPoint) ==
  geodesicResult[startPoint, endPoint, angleBetween[startPoint, endPoint]]

\* ---- page
\* the grid points the modelled user clicks on
ClickRows == {r \in 0..segments : r % (segments \div GeoLatCount) = 0}
ClickCols == {c \in 0..(segments - 1) : c % (segments \div GeoLonCount) = 0}
GeoClickable == {r * segments + c : r \in ClickRows, c \in ClickCols}

Includes(s, v) == \E k \in 1..Len(s) : s[k] = v

Filter(s, v) == SelectSeq(s, LAMBDA i : i # v)

\* an updater that appends while fewer than 3 are selected
nextSelectedPointsUpToThree(prev, index) ==
  IF Includes(prev, index) THEN Filter(prev, index)
  ELSE IF Len(prev) < 3 THEN Append(prev, index)
  ELSE <<index>>

\* the updater passed to setSelectedPoints
nextSelectedPoints(prev, index) ==
  IF Includes(prev, index) THEN Filter(prev, index)
  ELSE IF Len(prev) < 2 THEN Append(prev, index)
  ELSE <<index>>

\* an effect that takes the two selected grid points in the opposite order
selectionEffectEndFirst(sel, geo) ==
  IF Len(sel) = 2
  THEN [geodesic |-> computeSphericalGeodesic(basePoints(sel[2]), basePoints(sel[1])),
        scheduled |-> TRUE, computed |-> 1]
  ELSE [geodesic |-> null, scheduled |-> geo # null, computed |-> 0]

\* One run of the effect on [selectedPoints, basePoints, computeSpherical-
\* Geodesic] after a render.  basePoints is a new array in every render, so
\* the effect runs after every render.  setGeodesic(result) stores a new
\* object and schedules a render; setGeodesic(null) does so unless geodesic
\* is null already.
selectionEffect(sel, geo) ==
  IF Len(sel) = 2
  THEN [geodesic |-> computeSphericalGeodesic(basePoints(sel[1]), basePoints(sel[2])),
        scheduled |-> TRUE, computed |-> 1]
  ELSE [geodesic |-> null, scheduled |-> geo # null, computed |-> 0]

\* a render with the given selection, followed by the effect
RenderWith(sel, count) ==
  \E e \in {selectionEffect(sel, geodesic)} :
    /\ geodesic' = e.geodesic
    /\ geoUpdateScheduled' = e.scheduled
    /\ geoComputations' = count + e.computed

\* handlePointClick: nothing is set while isDragging is true
geoHandlePointClick ==
  /\ IF isDragging
     THEN UNCHANGED <<selectedPoints, geodesic, geoUpdateScheduled, geoComputations>>
     ELSE \E index \in GeoClickable :
            /\ selectedPoints' = nextSelectedPoints(selectedPoints, index)
            /\ RenderWith(nextSelectedPoints(selectedPoints, index), 0)
  /\ UNCHANGED isDragging
  /\ UNCHANGED <<triVars, hullVars, segVars, arrVars, primVars>>

\* setIsDragging(true); setLastMousePos({...}): always a render
geoHandlePointerDown ==
  /\ isDragging' = TRUE
  /\ RenderWith(selectedPoints, 0)
  /\ UNCHANGED selectedPoints
  /\ UNCHANGED <<triVars, hullVars, segVars, arrVars, primVars>>

\* setRotation(...); setLastMousePos({...}) while dragging
geoHandlePointerMove ==
  /\ isDragging
  /\ RenderWith(selectedPoints, 0)
  /\ UNCHANGED <<selectedPoints, isDragging>>
  /\ UNCHANGED <<triVars, hullVars, segVars, arrVars, primVars>>

\* setIsDragging(false): a render only if it was true
geoHandlePointerUp ==
  /\ isDragging
  /\ isDragging' = FALSE
  /\ RenderWith(selectedPoints, 0)
  /\ UNCHANGED selectedPoints
  /\ UNCHANGED <<triVars, hullVars, segVars, arrVars, primVars>>

\* a tab change runs cleanup()
geoCleanup ==
  /\ isDragging' = FALSE
  /\ selectedPoints' = <<>>
  /\ geodesic' = null
  /\ geoUpdateScheduled' = FALSE
  /\ geoComputations' = 0
  /\ UNCHANGED <<triVars, hullVars, segVars, arrVars, primVars>>

\* the render that a state update of the effect scheduled, and the effect
\* after it
geoScheduledRender ==
  /\ geoUpdateScheduled
  /\ geoComputations < MaxGeoComputations
  /\ RenderWith(selectedPoints, geoComputations)
  /\ UNCHANGED <<selectedPoints, isDragging>>
  /\ UNCHANGED <<triVars, hullVars, segVars, arrVars, primVars>>

\* ============================================== geometric-primitives.tsx
\* An array slot that was never written, and the value read from it.
empty == [empty |-> TRUE]
undefined == [undefined |-> TRUE]

IsPoint(v) == v # empty /\ v # undefined

\* a value of activePoint (number | null) that is the number n
Index(n) == [index |-> n]

\* [...points]: the iterator yields undefined for a slot never written
SpreadPoints(pts) ==
  [k \in 1..Len(pts) |-> IF pts[k] = empty THEN undefined ELSE pts[k]]

\* newPoints[index] = newPoint, index counted from 0: a write past the end
\* lengthens the array and leaves the slots in between unwritten
WriteAt(pts, index, newPoint) ==
  [k \in 1..(IF index + 1 > Len(pts) THEN index + 1 ELSE Len(pts)) |->
     IF k = index + 1 THEN newPoint
     ELSE IF k <= Len(pts) THEN pts[k]
     ELSE empty]

\* calculateDistance: the number Math.sqrt(root), kept by what is under the
\* root
calculateDistance(p1, p2) ==
  [root |-> (p2.x - p1.x) * (p2.x - p1.x) + (p2.y - p1.y) * (p2.y - p1.y)]

calculatePolygonArea(vertices) ==
  IF Len(vertices) < 3 THEN Frac(0, 1)
  ELSE LET n == Len(vertices)
           term(i) == vertices[i].x * vertices[(i % n) + 1].y
                      - vertices[(i % n) + 1].x * vertices[i].y
       IN Frac(Abs(SumSeq([i \in 1..n |-> term(i)])), 2)

\* reading .x of a slot that holds no Point throws a TypeError
MeasureThrows(newPoints) ==
  \E i \in 2..Len(newPoints) : ~IsPoint(newPoints[i - 1]) \/ ~IsPoint(newPoints[i])

\* the value updateMeasurements passes to setMeasurements
updateMeasurements(newPoints) ==
  [distances |-> [i \in 1..(IF Len(newPoints) = 0 THEN 0 ELSE Len(newPoints) - 1) |->
                    calculateDistance(newPoints[i], newPoints[i + 1])],
   area |-> IF Len(newPoints) >= 3 THEN calculatePolygonArea(newPoints) ELSE null]

\* points.map in the render reads point.x of every written slot
RenderThrows(pts) == \E k \in 1..Len(pts) : pts[k] = undefined

\* setPoints(newPoints); updateMeasurements(newPoints): the update of points
\* is queued before updateMeasurements can throw, and a render that throws
\* unmounts the page
SetPointsAndMeasure(newPoints) ==
  /\ primPoints' = newPoints
  /\ measurements' = IF MeasureThrows(newPoints) THEN measurements
                     ELSE updateMeasurements(newPoints)
  /\ primMounted' = ~RenderThrows(newPoints)

\* handleCanvasClick (the name is also used on the other pages)
primHandleCanvasClick ==
  /\ primMounted
  /\ Len(primPoints) < MaxPrimPoints
  /\ IF mode # "draw"
     THEN UNCHANGED <<primPoints, measurements, primMounted>>
     ELSE \E x \in 0..PrimMaxX, y \in 0..PrimMaxY :
            SetPointsAndMeasure(SpreadPoints(primPoints) \o <<Point(x, y)>>)
  /\ UNCHANGED <<mode, activePoint>>
  /\ UNCHANGED <<triVars, hullVars, segVars, arrVars, geoVars>>

\* handlePointMouseDown on the element drawn for points[index]
handlePointMouseDown ==
  /\ primMounted
  /\ \E index \in 0..(Len(primPoints) - 1) :
       /\ IsPoint(primPoints[index + 1])
       /\ activePoint' = IF mode = "move" THEN Index(index) ELSE activePoint
  /\ UNCHANGED <<primPoints, mode, measurements, primMounted>>
  /\ UNCHANGED <<triVars, hullVars, segVars, arrVars, geoVars>>

handleCanvasMouseMove ==
  /\ primMounted
  /\ IF activePoint = null
     THEN UNCHANGED <<primPoints, measurements, primMounted>>
     ELSE IF mode # "move"
     THEN UNCHANGED <<primPoints, measurements, primMounted>>
     ELSE \E x \in 0..PrimMaxX, y \in 0..PrimMaxY :
            SetPointsAndMeasure(WriteAt(SpreadPoints(primPoints), activePoint.index, Point(x, y)))
  /\ UNCHANGED <<mode, activePoint>>
  /\ UNCHANGED <<triVars, hullVars, segVars, arrVars, geoVars>>

\* handleCanvasMouseUp, bound to onMouseUp and onMouseLeave
handleCanvasMouseUp ==
  /\ primMounted
  /\ activePoint' = null
  /\ UNCHANGED <<primPoints, mode, measurements, primMounted>>
  /\ UNCHANGED <<triVars, hullVars, segVars, arrVars, geoVars>>

\* the Draw and Move buttons
primSetMode ==
  /\ primMounted
  /\ \E m \in {"draw", "move"} : mode' = m
  /\ UNCHANGED <<primPoints, activePoint, measurements, primMounted>>
  /\ UNCHANGED <<triVars, hullVars, segVars, arrVars, geoVars>>

\* handleClear (the name is also used on the other pages)
primHandleClear ==
  /\ primMounted
  /\ primPoints' = <<>>
  /\ measurements' = [distances |-> <<>>, area |-> null]
  /\ UNCHANGED <<mode, activePoint, primMounted>>
  /\ UNCHANGED <<triVars, hullVars, segVars, arrVars, geoVars>>

\* ============================================================== the pages
Init ==
  /\ triPoints = <<>> /\ triangles = <<>>
  /\ hullPoints = <<>> /\ hull = <<>>
  /\ lines = <<>> /\ intersections = <<>>
  /\ arrLines = <<>> /\ arrIntersections = <<>>
  /\ selectedPoints = <<>> /\ geodesic = null /\ isDragging = FALSE
  /\ geoUpdateScheduled = FALSE /\ geoComputations = 0
  /\ primPoints = <<>> /\ mode = "draw" /\ activePoint = null
  /\ measurements = [distances |-> <<>>, area |-> null] /\ primMounted = TRUE

TriNext == generateTriangles \/ generateTrianglesAlert \/ triHandleCanvasClick \/ triHandleClear

SpecTri == Init /\ [][TriNext]_vars

\* The triangulation page after four canvas clicks, each anywhere on a
\* QuadMaxX x QuadMaxY lattice, with Generate Triangles and Clear: the four
\* points are the arguments the triangulator's tests are applied to.
InitQuad ==
  /\ triPoints \in {<<TriPoint(1, x1, y1), TriPoint(2, x2, y2),
                       TriPoint(3, x3, y3), TriPoint(4, x4, y4)>> :
                       x1 \in 0..QuadMaxX, y1 \in 0..QuadMaxY,
                       x2 \in 0..QuadMaxX, y2 \in 0..QuadMaxY,
                       x3 \in 0..QuadMaxX, y3 \in 0..QuadMaxY,
                       x4 \in 0..QuadMaxX, y4 \in 0..QuadMaxY}
  /\ triangles = <<>>
  /\ hullPoints = <<>> /\ hull = <<>>
  /\ lines = <<>> /\ intersections = <<>>
  /\ arrLines = <<>> /\ arrIntersections = <<>>
  /\ selectedPoints = <<>> /\ geodesic = null /\ isDragging = FALSE
  /\ geoUpdateScheduled = FALSE /\ geoComputations = 0
  /\ primPoints = <<>> /\ mode = "draw" /\ activePoint = null
  /\ measurements = [distances |-> <<>>, area |-> null] /\ primMounted = TRUE

QuadNext == generateTriangles \/ triHandleClear

SpecQuad == InitQuad /\ [][QuadNext]_vars

HullNext == hullHandleCanvasClick \/ hullHandleClear

SpecHull == Init /\ [][HullNext]_vars

SegNext == segStartLine \/ segCompleteLine \/ segHandleClear

SpecSeg == Init /\ [][SegNext]_vars

ArrNext == arrHandleCanvasClick \/ arrHandleClear

SpecArr == Init /\ [][ArrNext]_vars

GeoNext ==
  \/ geoHandlePointClick \/ geoHandlePointerDown \/ geoHandlePointerMove
  \/ geoHandlePointerUp \/ geoCleanup \/ geoScheduledRender

SpecGeo == Init /\ [][GeoNext]_vars

PrimNext ==
  \/ primHandleCanvasClick \/ handlePointMouseDown \/ handleCanvasMouseMove
  \/ handleCanvasMouseUp \/ primSetMode \/ primHandleClear

SpecPrim == Init /\ [][PrimNext]_vars

\* ---- App.tsx: one Route element is mounted at a time.  The state of a
\* page component exists while it is mounted; a page that is not mounted has
\* no state and starts from its useState initial values when it is mounted.
triUnmounted == triPoints = <<>> /\ triangles = <<>>
hullUnmounted == hullPoints = <<>> /\ hull = <<>>
segUnmounted == lines = <<>> /\ intersections = <<>>

\* the Triangulation, ConvexHull and LineIntersection routes
triRoute == hullUnmounted /\ segUnmounted /\ TriNext
hullRoute == triUnmounted /\ segUnmounted /\ HullNext
segRoute == triUnmounted /\ hullUnmounted /\ SegNext

\* a change of route unmounts the page
siteNavigate ==
  /\ triPoints' = <<>> /\ triangles' = <<>>
  /\ hullPoints' = <<>> /\ hull' = <<>>
  /\ lines' = <<>> /\ intersections' = <<>>
  /\ UNCHANGED <<arrVars, geoVars, primVars>>

SiteNext == triRoute \/ hullRoute \/ segRoute \/ siteNavigate

SpecSite == Init /\ [][SiteNext]_vars

\* ------------------------------------------------ geometry of the claims
\* Exact integer geometry used to state the properties (not code).
Cross2(o, a, b) == (a.x - o.x) * (b.y - o.y) - (a.y - o.y) * (b.x - o.x)

Dot2(o, a, b) == (a.x - o.x) * (b.x - o.x) + (a.y - o.y) * (b.y - o.y)

SamePos(p, q) == p.x = q.x /\ p.y = q.y

\* p, known to be on the line through a and b, lies on the closed segment ab
InBox(a, b, p) ==
  /\ Min2(a.x, b.x) <= p.x /\ p.x <= Max2(a.x, b.x)
  /\ Min2(a.y, b.y) <= p.y /\ p.y <= Max2(a.y, b.y)

\* the closed segments ab and cd have a common point
SegmentsMeet(a, b, c, d) ==
  LET o1 == Cross2(a, b, c)
      o2 == Cross2(a, b, d)
      o3 == Cross2(c, d, a)
      o4 == Cross2(c, d, b)
  IN \/ (o1 * o2 < 0 /\ o3 * o4 < 0)
     \/ (o1 = 0 /\ InBox(a, b, c))
     \/ (o2 = 0 /\ InBox(a, b, d))
     \/ (o3 = 0 /\ InBox(c, d, a))
     \/ (o4 = 0 /\ InBox(c, d, b))

\* The closed loop P is a simple polygon: edges have positive length, two
\* edges that are not neighbours have no common point, and two neighbouring
\* edges have only their shared vertex in common.
IsSimplePolygon(P) ==
  LET n == Len(P)
  IN /\ n >= 3
     /\ \A i \in 1..n : ~SamePos(P[i], P[NextIdx(i, n)])
     /\ \A i \in 1..n :
          LET u == P[PrevIdx(i, n)]
              v == P[i]
              w == P[NextIdx(i, n)]
          IN ~(Cross2(u, v, w) = 0 /\ Dot2(v, u, w) > 0)
     /\ \A i \in 1..n : \A j \in (i + 1)..n :
          (j # NextIdx(i, n) /\ i # NextIdx(j, n))
             => ~SegmentsMeet(P[i], P[NextIdx(i, n)], P[j], P[NextIdx(j, n)])

\* twice the signed shoelace area: sum of x_i * y_(i+1) - x_(i+1) * y_i
Shoelace2(P) ==
  SumSeq([i \in 1..Len(P) |->
            P[i].x * P[NextIdx(i, Len(P))].y - P[NextIdx(i, Len(P))].x * P[i].y])

TriangleArea2(t) == Abs(Cross2(t[1], t[2], t[3]))

TrianglesArea2(ts) == SumSeq([k \in 1..Len(ts) |-> TriangleArea2(ts[k])])

\* a complete triangulation of P: n-2 triangles whose areas add up to P's
IsCompleteTriangulation(P, ts) ==
  /\ Len(ts) = Len(P) - 2
  /\ TrianglesArea2(ts) = Abs(Shoelace2(P))

HasReflexVertex(P) ==
  \E i \in 1..Len(P) :
    Cross2(P[PrevIdx(i, Len(P))], P[i], P[NextIdx(i, Len(P))]) * Shoelace2(P) < 0

\* C1 (as stated): for every simple polygon with n >= 3 vertices, in whatever
\* vertex order, earClipTriangulation returns n-2 triangles whose areas sum
\* to the shoelace area.
C1_AnyOrder ==
  [][(generateTriangles /\ IsSimplePolygon(triPoints))
       => IsCompleteTriangulation(triPoints, triangles')]_vars

\* C1 (amended): for every simple polygon with n >= 3 vertices whose vertex
\* order makes crossProduct(prev, curr, next) positive at its convex vertices
\* (positive signed shoelace sum; clockwise as seen on the canvas), and for
\* every simple polygon with exactly 3 vertices, earClipTriangulation
\* returns n-2 triangles whose areas sum to the shoelace area.
C1_PositiveOrder ==
  [][(generateTriangles /\ IsSimplePolygon(triPoints)
        /\ (Shoelace2(triPoints) > 0 \/ Len(triPoints) = 3))
       => IsCompleteTriangulation(triPoints, triangles')]_vars

\* a non-convex simple quadrilateral in positive order has been triangulated
C1_Witness ==
  /\ Len(triPoints) = 4
  /\ IsSimplePolygon(triPoints)
  /\ Shoelace2(triPoints) > 0
  /\ HasReflexVertex(triPoints)
  /\ triangles = earClipTriangulation(triPoints)
  /\ Len(triangles) = 2

\* ---------------------------------------------------------- convex hull
AllCollinear(P) ==
  \A i \in 1..Len(P), j \in 1..Len(P), k \in 1..Len(P) : Cross2(P[i], P[j], P[k]) = 0

\* every cyclically consecutive triple of H turns the same (strict) way
TurnsOneWay(H) ==
  LET n == Len(H)
      turn(i) == Cross2(H[i], H[NextIdx(i, n)], H[NextIdx(NextIdx(i, n), n)])
  IN /\ n >= 3
     /\ \/ \A i \in 1..n : turn(i) > 0
        \/ \A i \in 1..n : turn(i) < 0

\* p is on the boundary of or strictly inside the convex polygon H
InsideOrOn(p, H) ==
  LET n == Len(H)
      side(i) == Cross2(H[i], H[NextIdx(i, n)], p)
  IN \/ \A i \in 1..n : side(i) >= 0
     \/ \A i \in 1..n : side(i) <= 0

\* C2: for at least 3 input points that are not all collinear, every input
\* point lies on or inside the polygon returned by calculateConvexHull, and
\* every cyclically consecutive triple of that polygon turns the same way.
C2_HullContainsInput ==
  (Len(hullPoints) >= 3 /\ ~AllCollinear(hullPoints))
    => /\ TurnsOneWay(hull)
       /\ \A i \in 1..Len(hullPoints) : InsideOrOn(hullPoints[i], hull)

\* a hull of four corners around a fifth, interior, input point
C2_Witness ==
  /\ Len(hullPoints) = 5
  /\ Len(hull) = 4
  /\ \E i \in 1..5 : \A k \in 1..4 :
        Cross2(hull[k], hull[NextIdx(k, 4)], hullPoints[i]) > 0

IsRotation(s, t) ==
  /\ Len(s) = Len(t)
  /\ \/ s = <<>>
     \/ \E r \in 0..(Len(s) - 1) :
          \A k \in 1..Len(s) : s[k] = t[((k - 1 + r) % Len(s)) + 1]

\* C3: calculateConvexHull is idempotent: applied to its own output it
\* returns the same points, up to rotation of the order, for every input.
C3_HullIdempotent == IsRotation(calculateConvexHull(hull), hull)

\* an input with duplicate and collinear points whose hull is a triangle
C3_Witness ==
  /\ Len(hullPoints) = 5
  /\ Len(hull) = 3
  /\ \E i \in 1..5, j \in 1..5 : i # j /\ hullPoints[i] = hullPoints[j]
  /\ \E i \in 1..5, j \in 1..5, k \in 1..5 :
        /\ hullPoints[i] # hullPoints[j] /\ hullPoints[j] # hullPoints[k]
        /\ hullPoints[i] # hullPoints[k]
        /\ Cross2(hullPoints[i], hullPoints[j], hullPoints[k]) = 0

SameElements(s, t) == {s[k] : k \in 1..Len(s)} = {t[k] : k \in 1..Len(t)}

Complete(l) == l.end # null

Parallel(l1, l2) ==
  (l1.end.x - l1.start.x) * (l2.end.y - l2.start.y)
    - (l1.end.y - l1.start.y) * (l2.end.x - l2.start.x) = 0

\* The common point of two segments in parametric form: the lines meet at
\* l1.start + t (l1.end - l1.start) = l2.start + u (l2.end - l2.start) with
\* t = tn / D and u = un / D.
ParamD(l1, l2) ==
  (l1.end.x - l1.start.x) * (l2.end.y - l2.start.y)
    - (l1.end.y - l1.start.y) * (l2.end.x - l2.start.x)

ParamT(l1, l2) ==
  (l2.start.x - l1.start.x) * (l2.end.y - l2.start.y)
    - (l2.start.y - l1.start.y) * (l2.end.x - l2.start.x)

ParamU(l1, l2) ==
  (l2.start.x - l1.start.x) * (l1.end.y - l1.start.y)
    - (l2.start.y - l1.start.y) * (l1.end.x - l1.start.x)

\* 0 <= n / d <= 1
UnitRatio(n, d) == (d > 0 /\ 0 <= n /\ n <= d) \/ (d < 0 /\ d <= n /\ n <= 0)

\* the supporting lines have a unique common point and it is on both segments
MeetInOnePoint(l1, l2) ==
  /\ ParamD(l1, l2) # 0
  /\ UnitRatio(ParamT(l1, l2), ParamD(l1, l2))
  /\ UnitRatio(ParamU(l1, l2), ParamD(l1, l2))

\* pt is the point l1.start + (tn / D) (l1.end - l1.start)
IsCommonPoint(pt, l1, l2) ==
  LET D == ParamD(l1, l2)
      tn == ParamT(l1, l2)
  IN /\ pt.x.d > 0 /\ pt.y.d > 0
     /\ pt.x.n * D = pt.x.d * (l1.start.x * D + tn * (l1.end.x - l1.start.x))
     /\ pt.y.n * D = pt.y.d * (l1.start.y * D + tn * (l1.end.y - l1.start.y))

IntPoint(x, y) == [x |-> Frac(x, 1), y |-> Frac(y, 1)]

\* C5: for two complete segments calculateIntersection returns a point
\* exactly when the determinant is non-zero and the common point of the two
\* lines is on both segments (bounds inclusive), and it returns that point;
\* (0,0)-(10,10) with (0,10)-(10,0) gives (5,5).
C5_IntersectionPoint ==
  /\ calculateIntersection(Line(Point(0, 0), Point(10, 10)),
                           Line(Point(0, 10), Point(10, 0))) = IntPoint(5, 5)
  /\ \A i \in 1..Len(lines), j \in 1..Len(lines) :
       (Complete(lines[i]) /\ Complete(lines[j])) =>
         LET r == calculateIntersection(lines[i], lines[j])
         IN /\ (r # null) <=> MeetInOnePoint(lines[i], lines[j])
            /\ (r # null) => IsCommonPoint(r, lines[i], lines[j])
  /\ (Len(lines) = 2 /\ Complete(lines[2]) /\ MeetInOnePoint(lines[1], lines[2]))
       => (Len(intersections) = 1 /\ IsCommonPoint(intersections[1], lines[1], lines[2]))

\* two non-parallel segments that touch only at an endpoint of both, and
\* the stored intersection is that endpoint
C5_Witness ==
  /\ Len(lines) = 2 /\ Complete(lines[2])
  /\ ~Parallel(lines[1], lines[2])
  /\ lines[1].end = lines[2].start
  /\ intersections = <<IntPoint(lines[1].end.x, lines[1].end.y)>>

\* C6: calculateIntersection returns null whenever the determinant is zero:
\* parallel segments, collinear segments even when they overlap, and pairs
\* in which a segment has zero length.
C6_ParallelIsNull ==
  /\ \A i \in 1..Len(lines), j \in 1..Len(lines) :
       (/\ Complete(lines[i]) /\ Complete(lines[j])
        /\ \/ Parallel(lines[i], lines[j])
           \/ lines[i].start = lines[i].end
           \/ lines[j].start = lines[j].end)
         => calculateIntersection(lines[i], lines[j]) = null
  /\ (/\ Len(lines) = 2 /\ Complete(lines[2])
      /\ \/ Parallel(lines[1], lines[2])
         \/ lines[1].start = lines[1].end
         \/ lines[2].start = lines[2].end)
       => intersections = <<>>

\* two collinear segments of positive length that overlap, and no stored
\* intersection
C6_Witness ==
  /\ Len(lines) = 2 /\ Complete(lines[2])
  /\ lines[1].start # lines[1].end /\ lines[2].start # lines[2].end
  /\ Parallel(lines[1], lines[2])
  /\ Cross2(lines[1].start, lines[1].end, lines[2].start) = 0
  /\ InBox(lines[1].start, lines[1].end, lines[2].start)
  /\ lines[2].start # lines[1].start /\ lines[2].start # lines[1].end
  /\ intersections = <<>>

\* ------------------------------------------------------ line arrangement
\* The lines y = (m/SlopeDen) x + b/SlopeDen, stated without division: two
\* lines with different slopes meet at x = (b2 - b1) / (m1 - m2).
MeetX(l1, l2) == [n |-> l2.b - l1.b, d |-> l1.m - l2.m]

\* SlopeDen * y at the meeting point
MeetY(l1, l2) == [n |-> l1.m * l2.b - l2.m * l1.b, d |-> SlopeDen * (l1.m - l2.m)]

\* lo <= q.n / q.d <= hi
RatioBetween(q, lo, hi) ==
  IF q.d > 0 THEN lo * q.d <= q.n /\ q.n <= hi * q.d
  ELSE hi * q.d <= q.n /\ q.n <= lo * q.d

MeetWithinBounds(l1, l2) ==
  /\ RatioBetween(MeetX(l1, l2), 0, boundsWidth)
  /\ RatioBetween(MeetY(l1, l2), 0, boundsHeight)

\* three lines through one point: the determinant of (m, -1, b) vanishes
Concurrent(l1, l2, l3) ==
  l1.m * (l3.b - l2.b) + l2.m * (l1.b - l3.b) + l3.m * (l2.b - l1.b) = 0

GeneralPosition(ls) ==
  /\ \A i \in 1..Len(ls), j \in 1..Len(ls) : i # j => ls[i].m # ls[j].m
  /\ \A i \in 1..Len(ls), j \in 1..Len(ls), k \in 1..Len(ls) :
       (i < j /\ j < k) => ~Concurrent(ls[i], ls[j], ls[k])

AllMeetWithinBounds(ls) ==
  \A i \in 1..Len(ls), j \in 1..Len(ls) : i < j => MeetWithinBounds(ls[i], ls[j])

\* C7: for n lines in general position whose pairwise intersections all lie
\* within the bounds, the intersections list has n(n-1)/2 points.
C7_GeneralPositionCount ==
  (GeneralPosition(arrLines) /\ AllMeetWithinBounds(arrLines))
    => Len(arrIntersections) = (Len(arrLines) * (Len(arrLines) - 1)) \div 2

\* three lines in general position, all meeting within the bounds, one of
\* the meeting points on the border x = 0, and three stored points
C7_Witness ==
  /\ Len(arrLines) = 3
  /\ GeneralPosition(arrLines)
  /\ AllMeetWithinBounds(arrLines)
  /\ \E i \in 1..3, j \in 1..3 : i # j /\ arrLines[i].b = arrLines[j].b
  /\ Len(arrIntersections) = 3

\* ------------------------------------------------------------- geodesics
GeoStart == basePoints(selectedPoints[1])
GeoEnd == basePoints(selectedPoints[2])

\* the path entry pp is at the position of the grid point pt
AtPosition(pp, pt) == pp.x = Num(pt.x) /\ pp.y = Num(pt.y) /\ pp.z = Num(pt.z)

SamePosition(p, q) == p.x = q.x /\ p.y = q.y /\ p.z = q.z

Antipodal(p, q) == p.x = FNeg(q.x) /\ p.y = FNeg(q.y) /\ p.z = FNeg(q.z)

\* C8: computeSphericalGeodesic returns a path of steps+1 points for every
\* pair of input points, whose first point is the start point and whose
\* last point is the end point.
C8_PathEndpoints ==
  Len(selectedPoints) = 2 =>
    /\ geodesic # null
    /\ Len(geodesic.path) = steps + 1
    /\ AtPosition(geodesic.path[1], GeoStart)
    /\ AtPosition(geodesic.path[steps + 1], GeoEnd)

HasNaN(pp) == pp.x = NaN \/ pp.y = NaN \/ pp.z = NaN

\* C9: for every pair of grid points selectable on the page, coincident
\* endpoints get a two-point path, antipodal endpoints are not interpolated,
\* and no path coordinate is an undefined 0/0 value.
C9_NoUndefinedCoordinate ==
  Len(selectedPoints) = 2 =>
    /\ geodesic # null
    /\ SamePosition(GeoStart, GeoEnd) => Len(geodesic.path) = 2
    /\ Antipodal(GeoStart, GeoEnd) => Len(geodesic.path) # steps + 1
    /\ \A i \in 1..Len(geodesic.path) : ~HasNaN(geodesic.path[i])

\* The angle between two grid points from their latitudes and longitudes
\* (spherical law of cosines):
\* cos = sin(lat1) sin(lat2) + cos(lat1) cos(lat2) cos(lon2 - lon1)
CosCentralAngle(p, q) ==
  LET lat1 == 90 - p.phi
      lat2 == 90 - q.phi
      dlon == (180 - q.theta) - (180 - p.theta)
  IN FAdd(FMul(SinDeg(lat1 + 360), SinDeg(lat2 + 360)),
          FMul(FMul(CosDeg(lat1 + 360), CosDeg(lat2 + 360)), CosDeg(dlon + 720)))

\* the squared chord of two points of the sphere at that angle:
\* 2 R^2 (1 - cos)
Chord2(p, q) ==
  FMul(FInt(2 * SPHERE_RADIUS * SPHERE_RADIUS), FSub(FOne, CosCentralAngle(p, q)))

\* C10 (as stated): the returned length is R * angle and the returned
\* straight distance is the Euclidean distance of the endpoints, R being the
\* radius of the sphere the input points lie on.
C10_LengthOnSphere ==
  Len(selectedPoints) = 2 =>
    /\ geodesic.length
         = AngleMultiple(Frac(SPHERE_RADIUS, 1), Acos(CosCentralAngle(GeoStart, GeoEnd)))
    /\ geodesic.straightDistance
         = RootMultiple(Frac(1, 1), Chord2(GeoStart, GeoEnd))

\* C10 (amended): the returned length is EARTH_RADIUS * angle and the
\* returned straight distance is the Euclidean distance of the endpoints
\* times EARTH_RADIUS / SPHERE_RADIUS (both in km on an Earth-sized sphere):
\* coincident points give 0 and 0, points 90 degrees apart give
\* (pi/2) * EARTH_RADIUS and EARTH_RADIUS * sqrt(2).
C10_LengthInKm ==
  Len(selectedPoints) = 2 =>
    /\ geodesic.length
         = AngleMultiple(Frac(EARTH_RADIUS, 1), Acos(CosCentralAngle(GeoStart, GeoEnd)))
    /\ geodesic.straightDistance
         = RootMultiple(Frac(EARTH_RADIUS, SPHERE_RADIUS), Chord2(GeoStart, GeoEnd))
    /\ SamePosition(GeoStart, GeoEnd)
         => /\ geodesic.length.coef = Frac(0, 1)
            /\ geodesic.straightDistance.coef = Frac(0, 1)
    /\ CosCentralAngle(GeoStart, GeoEnd) = FZero
         => /\ geodesic.length = [coef |-> Frac(EARTH_RADIUS, 1), dot |-> FZero]
            /\ geodesic.straightDistance
                 = [coef |-> Frac(EARTH_RADIUS, SPHERE_RADIUS),
                    radicand |-> FInt(2 * SPHERE_RADIUS * SPHERE_RADIUS)]

\* a geodesic between two grid points 90 degrees apart, neither at a pole
C10_Witness ==
  /\ Len(selectedPoints) = 2
  /\ CosCentralAngle(GeoStart, GeoEnd) = FZero
  /\ GeoStart.phi \notin {0, 180} /\ GeoEnd.phi \notin {0, 180}
  /\ geodesic # null
  /\ geodesic.length.coef = Frac(EARTH_RADIUS, 1)

\* C11: each user gesture triggers at most one recomputation of the path:
\* between two gestures computeSphericalGeodesic runs at most once, the
\* effect that stores the geodesic not triggering itself again.
C11_OneRecomputationPerGesture == geoComputations <= 1

\* -------------------------------------------------- the clipping loop
\* C12: earClipTriangulation terminates on every input list (self-
\* intersecting, either orientation, collinear or duplicated vertices
\* included): the loop makes at most n-3 passes (none for n <= 3), and each
\* pass either removes exactly one vertex or finds no ear and is the last.
C12_ClipLoopTerminates ==
  LET n == Len(triPoints)
      passes == ClipPasses(triPoints)
  IN /\ Len(passes) <= Max2(n - 3, 0)
     /\ \A k \in 1..Len(passes) :
          IF passes[k].i = 0
          THEN k = Len(passes) /\ passes[k].after = passes[k].polygonCopy
          ELSE Len(passes[k].after) = Len(passes[k].polygonCopy) - 1

\* Generate Triangles has run on a list that is no simple polygon, and its
\* one pass removed a vertex
C12_Witness ==
  /\ Len(triPoints) = 4
  /\ ~IsSimplePolygon(triPoints)
  /\ triangles # <<>>
  /\ triangles = earClipTriangulation(triPoints)
  /\ Len(ClipPasses(triPoints)) = 1
  /\ ClipPasses(triPoints)[1].i # 0

\* ------------------------------------------------------------ the pages
\* C13: a clear discards everything in one step: after handleClear on the
\* triangulation, line-intersection and convex-hull pages the input list and
\* the derived structure are both empty, whatever the state before.
C13_ClearDiscardsAll ==
  [][/\ triHandleClear => (triPoints' = <<>> /\ triangles' = <<>>)
     /\ segHandleClear => (lines' = <<>> /\ intersections' = <<>>)
     /\ hullHandleClear => (hullPoints' = <<>> /\ hull' = <<>>)]_vars

\* a state a clear starts from: two complete lines and their stored
\* intersection
C13_Witness ==
  /\ Len(lines) = 2
  /\ lines[2].end # null
  /\ Len(intersections) = 1

\* C14: in every state reachable by canvas clicks, Generate Triangles and
\* Clear, the stored triangles are empty or are the triangulation of the
\* current points list, never that of an older list.
C14_TrianglesCurrent ==
  triangles = <<>> \/ triangles = earClipTriangulation(triPoints)

\* ---------------------------------------- triangles inside the polygon
Dbl(p) == [x |-> 2 * p.x, y |-> 2 * p.y]

OnSegment(a, b, q) == Cross2(a, b, q) = 0 /\ InBox(a, b, q)

\* q is inside or on the boundary of the simple polygon P (crossing number
\* of the ray from q towards +x)
InsideOrOnPolygon(P, q) ==
  LET n == Len(P)
      crossing(i) ==
        LET a == P[i]
            b == P[NextIdx(i, n)]
        IN /\ (a.y > q.y) # (b.y > q.y)
           /\ IF b.y > a.y THEN Cross2(a, b, q) > 0 ELSE Cross2(a, b, q) < 0
  IN \/ \E i \in 1..n : OnSegment(P[i], P[NextIdx(i, n)], q)
     \/ Cardinality({i \in 1..n : crossing(i)}) % 2 = 1

ProperCrossing(a, b, c, d) ==
  /\ Cross2(a, b, c) * Cross2(a, b, d) < 0
  /\ Cross2(c, d, a) * Cross2(c, d, b) < 0

\* The segment uv between two lattice points lies in the closed polygon P:
\* no edge of P crosses it, and the midpoint of each of its pieces between
\* neighbouring lattice points is inside or on P (coordinates doubled).
SegmentInside(P, u, v) ==
  LET n == Len(P)
      g == GCD(Abs(v.x - u.x), Abs(v.y - u.y))
      P2 == [i \in 1..n |-> Dbl(P[i])]
      mid(j) == [x |-> 2 * u.x + (2 * j + 1) * ((v.x - u.x) \div g),
                 y |-> 2 * u.y + (2 * j + 1) * ((v.y - u.y) \div g)]
  IN /\ \A i \in 1..n : ~ProperCrossing(u, v, P[i], P[NextIdx(i, n)])
     /\ \A j \in 0..(g - 1) : InsideOrOnPolygon(P2, mid(j))

\* the closed triangle t lies in the closed simple polygon P: its three
\* sides do
TriangleInside(P, t) ==
  /\ SegmentInside(P, t[1], t[2])
  /\ SegmentInside(P, t[2], t[3])
  /\ SegmentInside(P, t[3], t[1])

\* C15: for a simple polygon whose points are in clockwise order as seen on
\* the canvas (crossProduct(prev, curr, next) > 0 at the convex vertices),
\* Generate Triangles stores n-2 triangles, each inside the polygon, whose
\* areas add up to the polygon's area.
C15_ClockwiseComplete ==
  [][(generateTriangles /\ IsSimplePolygon(triPoints) /\ Shoelace2(triPoints) > 0)
       => /\ IsCompleteTriangulation(triPoints, triangles')
          /\ \A k \in 1..Len(triangles') : TriangleInside(triPoints, triangles'[k])]_vars

\* a clockwise quadrilateral with a reflex vertex and its two stored
\* triangles, both inside it
C15_Witness ==
  /\ Len(triPoints) = 4
  /\ IsSimplePolygon(triPoints)
  /\ Shoelace2(triPoints) > 0
  /\ \E i \in 1..4 : Cross2(triPoints[PrevIdx(i, 4)], triPoints[i], triPoints[NextIdx(i, 4)]) < 0
  /\ Len(triangles) = 2
  /\ \A k \in 1..2 : TriangleInside(triPoints, triangles[k])
  /\ TrianglesArea2(triangles) = Shoelace2(triPoints)

\* ------------------------------------------------- the ear of a pass
\* q is inside or on the triangle abc
InsideOrOnTriangle(q, a, b, c) == InsideOrOn(q, <<a, b, c>>)

\* vertex i of the ring turns the positive way and no other vertex of the
\* ring is inside or on the triangle of i and its two neighbours
IsEmptyConvexCorner(ring, i) ==
  LET n == Len(ring)
      prev == ring[PrevIdx(i, n)]
      curr == ring[i]
      next == ring[NextIdx(i, n)]
  IN /\ Cross2(prev, curr, next) > 0
     /\ \A k \in 1..n :
          (k # i /\ k # PrevIdx(i, n) /\ k # NextIdx(i, n))
             => ~InsideOrOnTriangle(ring[k], prev, curr, next)

\* the lowest such index, 0 when there is none
LowestEmptyConvexCorner(ring) ==
  LET c == {i \in 1..Len(ring) : IsEmptyConvexCorner(ring, i)}
  IN IF c = {} THEN 0 ELSE CHOOSE i \in c : \A j \in c : i <= j

\* C16: on a simple polygon, every pass removes the lowest-index vertex
\* with cross(prev, curr, next) > 0 and no other ring vertex inside or on
\* its triangle (the diagonal test of isEar rejecting no such vertex), emits
\* the triangle (prev, curr, next) and leaves the ring with curr deleted in
\* the same order; the last emitted triangle is the 3 remaining vertices.
C16_FirstEarClipped ==
  [][(generateTriangles /\ IsSimplePolygon(triPoints))
       => LET passes == ClipPasses(triPoints)
              last == IF passes = <<>> THEN triPoints ELSE passes[Len(passes)].after
          IN /\ \A k \in 1..Len(passes) :
                  LET ring == passes[k].polygonCopy
                      n == Len(ring)
                      i == passes[k].i
                  IN /\ i = LowestEmptyConvexCorner(ring)
                     /\ i # 0 =>
                          /\ triangles'[k] = <<ring[PrevIdx(i, n)], ring[i], ring[NextIdx(i, n)]>>
                          /\ passes[k].after = SelectSeq(ring, LAMBDA p : p.id # ring[i].id)
             /\ Len(last) = 3 =>
                  /\ Len(triangles') = Len(passes) + 1
                  /\ triangles'[Len(triangles')] = last]_vars

\* a simple quadrilateral whose first vertex is no ear: the pass removed a
\* later vertex and the remaining three are the second triangle
C16_Witness ==
  /\ Len(triPoints) = 4
  /\ IsSimplePolygon(triPoints)
  /\ LowestEmptyConvexCorner(triPoints) > 1
  /\ Len(triangles) = 2
  /\ triangles = earClipTriangulation(triPoints)
  /\ triangles[2] = ClipPasses(triPoints)[1].after

\* ------------------------------------------------------ no ear found
\* the triangle a pass with an ear emits
PassTriangle(pass) ==
  LET n == Len(pass.polygonCopy)
  IN <<pass.polygonCopy[PrevIdx(pass.i, n)], pass.polygonCopy[pass.i],
       pass.polygonCopy[NextIdx(pass.i, n)]>>

\* the last pass of the loop found no ear
NoEarFound(polygon) ==
  ClipPasses(polygon) # <<>> /\ ClipPasses(polygon)[Len(ClipPasses(polygon))].i = 0

\* C17: when a pass finds no ear while more than 3 vertices remain,
\* earClipTriangulation returns exactly the triangles of the earlier passes,
\* with no final triangle and no error: fewer than n-2 triangles, and none
\* when the first pass fails.
C17_NoEarReturnsPartial ==
  [][(generateTriangles /\ NoEarFound(triPoints))
       => LET passes == ClipPasses(triPoints)
          IN /\ triangles' = [k \in 1..(Len(passes) - 1) |-> PassTriangle(passes[k])]
             /\ Len(triangles') < Len(triPoints) - 2
             /\ Len(passes) = 1 => triangles' = <<>>]_vars

\* five points of a simple polygon whose first pass clips an ear and whose
\* second pass finds none: the result is the one triangle of the first pass
C17_Witness ==
  /\ Len(triPoints) = 5
  /\ IsSimplePolygon(triPoints)
  /\ NoEarFound(triPoints)
  /\ Len(ClipPasses(triPoints)) = 2
  /\ triangles = earClipTriangulation(triPoints)
  /\ triangles = <<PassTriangle(ClipPasses(triPoints)[1])>>

\* C18: when Generate Triangles runs on at least 3 points and no ear is
\* found, the page keeps the triangles displayed before or clears them; it
\* never stores a partial triangle list.
C18_NoPartialResultStored ==
  [][(generateTriangles /\ NoEarFound(triPoints))
       => (triangles' = triangles \/ triangles' = <<>>)]_vars

\* ------------------------------------------------- order of the hull
\* p is the lexicographically smallest point of P: smallest x, then
\* smallest y
IsLexSmallest(p, P) ==
  /\ \E i \in 1..Len(P) : P[i] = p
  /\ \A i \in 1..Len(P) : p.x < P[i].x \/ (p.x = P[i].x /\ p.y <= P[i].y)

\* C19: for at least 3 input points that are not all collinear, every
\* cyclically consecutive triple (p, q, r) of the hull has cross(p, q, r) > 0
\* (counter-clockwise in the mathematical sense), and the first hull point is
\* the lexicographically smallest input point.
C19_HullCounterClockwise ==
  (Len(hullPoints) >= 3 /\ ~AllCollinear(hullPoints))
    => /\ Len(hull) >= 3
       /\ \A i \in 1..Len(hull) :
            Cross2(hull[i], hull[NextIdx(i, Len(hull))],
                   hull[NextIdx(NextIdx(i, Len(hull)), Len(hull))]) > 0
       /\ IsLexSmallest(hull[1], hullPoints)

\* a hull of four points around an input whose first click is not the
\* smallest point and is not on the hull
C19_Witness ==
  /\ Len(hullPoints) = 5
  /\ Len(hull) = 4
  /\ ~IsLexSmallest(hullPoints[1], hullPoints)
  /\ \A k \in 1..4 : hull[k] # hullPoints[1]
  /\ Cross2(hull[1], hull[2], hull[3]) > 0

\* C20: for every input of at least 3 points the hull holds only strictly
\* extremal points, each once: no input point on the closed segment between
\* two other hull points, no three collinear hull points, and no two hull
\* entries with equal coordinates.
C20_StrictlyExtremalOnce ==
  Len(hullPoints) >= 3 =>
    LET n == Len(hull)
    IN /\ \A i \in 1..n, j \in 1..n : i # j => ~SamePos(hull[i], hull[j])
       /\ \A i \in 1..n, j \in 1..n, k \in 1..n :
            (i # j /\ j # k /\ i # k) => Cross2(hull[i], hull[j], hull[k]) # 0
       /\ \A i \in 1..n, j \in 1..n, k \in 1..n :
            (i # j /\ j # k /\ i # k) => ~OnSegment(hull[i], hull[j], hull[k])

\* ------------------------------------------- the triangulator's tests
\* c and d lie strictly on opposite sides of the line through a and b
StrictlyOppositeSides(a, b, c, d) ==
  \/ (Cross2(a, b, c) > 0 /\ Cross2(a, b, d) < 0)
  \/ (Cross2(a, b, c) < 0 /\ Cross2(a, b, d) > 0)

\* the segments p1p2 and p3p4 have an endpoint in common: the same object
\* or the same position
SharesEndpoint(p1, p2, p3, p4) ==
  \E u \in {p1, p2}, v \in {p3, p4} : u.id = v.id \/ SamePos(u, v)

\* C21: doSegmentsIntersect is false whenever the two segments share an
\* endpoint, and otherwise true exactly when the endpoints of each segment
\* lie strictly on opposite sides of the other's line; touching at an
\* interior point and collinear overlap give false.  The segments are taken
\* between any of the four points, so that all ways of sharing are covered.
C21_ProperCrossingsOnly ==
  \A i \in 1..Len(triPoints), j \in 1..Len(triPoints),
     k \in 1..Len(triPoints), l \in 1..Len(triPoints) :
    LET p1 == triPoints[i]
        p2 == triPoints[j]
        p3 == triPoints[k]
        p4 == triPoints[l]
    IN doSegmentsIntersect(p1, p2, p3, p4)
         = IF SharesEndpoint(p1, p2, p3, p4) THEN FALSE
           ELSE /\ StrictlyOppositeSides(p1, p2, p3, p4)
                /\ StrictlyOppositeSides(p3, p4, p1, p2)

\* four different points on one line: the segment of the first two and
\* the segment of the last two overlap, and the tester says false
C21_Witness ==
  /\ Len(triPoints) = 4
  /\ \A i \in 1..4, j \in 1..4 : i # j => ~SamePos(triPoints[i], triPoints[j])
  /\ Cross2(triPoints[1], triPoints[2], triPoints[3]) = 0
  /\ Cross2(triPoints[1], triPoints[2], triPoints[4]) = 0
  /\ InBox(triPoints[1], triPoints[2], triPoints[3])
  /\ ~InBox(triPoints[1], triPoints[2], triPoints[4])
  /\ ~doSegmentsIntersect(triPoints[1], triPoints[2], triPoints[3], triPoints[4])

\* ------------------------------------------ the arrangement's point set
\* the stored point e is the meeting point of l1 and l2 (different slopes)
IsMeetingPoint(e, l1, l2) ==
  /\ e.x.d # 0 /\ e.y.d # 0
  /\ e.x.n * MeetX(l1, l2).d = MeetX(l1, l2).n * e.x.d
  /\ e.y.n * MeetY(l1, l2).d = MeetY(l1, l2).n * e.y.d

\* the pair (i, j) of lines has a meeting point that is to be kept
KeptPair(ls, i, j) ==
  i < j /\ ls[i].m # ls[j].m /\ MeetWithinBounds(ls[i], ls[j])

\* the list holds the in-bounds meeting points and nothing else
HoldsMeetingPoints(ls, pts) ==
  /\ \A i \in 1..Len(ls), j \in 1..Len(ls) :
       KeptPair(ls, i, j) => \E k \in 1..Len(pts) : IsMeetingPoint(pts[k], ls[i], ls[j])
  /\ \A k \in 1..Len(pts) :
       \E i \in 1..Len(ls), j \in 1..Len(ls) :
         KeptPair(ls, i, j) /\ IsMeetingPoint(pts[k], ls[i], ls[j])

\* C22: the arrangement intersections list is the set of in-bounds pairwise
\* intersection points: an entry for each pair of lines with different
\* slopes meeting within the bounds (border included), none for other pairs,
\* and no point twice, also when three or more lines pass through one point.
C22_InBoundsPointSet ==
  /\ HoldsMeetingPoints(arrLines, arrIntersections)
  /\ \A k \in 1..Len(arrIntersections), l \in 1..Len(arrIntersections) :
       k # l => arrIntersections[k] # arrIntersections[l]

\* ------------------------------------------- the points of the path
\* the Cartesian coordinates that generateSpherePoints derives from the
\* angles phi and theta
CartesianOf(phi, theta) ==
  [x |-> Num(FMul(FInt(SPHERE_RADIUS), FMul(SinDeg(phi), CosDeg(theta)))),
   y |-> Num(FMul(FInt(SPHERE_RADIUS), FMul(SinDeg(phi), SinDeg(theta)))),
   z |-> Num(FMul(FInt(SPHERE_RADIUS), CosDeg(phi)))]

\* C23: every point of the path produced by computeSphericalGeodesic
\* carries angles (phi, theta) consistent with its (x, y, z).
C23_PathAnglesConsistent ==
  (Len(selectedPoints) = 2 /\ geodesic # null) =>
    \A i \in 1..Len(geodesic.path) :
      LET pp == geodesic.path[i]
      IN [x |-> pp.x, y |-> pp.y, z |-> pp.z] = CartesianOf(pp.phi, pp.theta)

\* ------------------------------------------------ derived page state
\* C24: on the convex-hull page, in every state reachable by canvas clicks
\* and clears, the stored hull is calculateConvexHull of the stored points.
C24_HullOfLatestPoints == hull = calculateConvexHull(hullPoints)

\* the last of five clicks changed the hull, and the stored hull is that of
\* all five points
C24_Witness ==
  /\ Len(hullPoints) = 5
  /\ hull = calculateConvexHull(hullPoints)
  /\ hull # calculateConvexHull(SubSeq(hullPoints, 1, 4))
  /\ Len(calculateConvexHull(SubSeq(hullPoints, 1, 4))) >= 3

\* C25: on the line-intersection page, in every state reachable by canvas
\* clicks and clears, only the last line may have its end unset, and the
\* stored intersections are calculateIntersections of the stored lines, a
\* line with its end unset contributing no point.
C25_IntersectionsOfStoredLines ==
  /\ \A k \in 1..(Len(lines) - 1) : lines[k].end # null
  /\ intersections = calculateIntersections(lines)
  /\ \A k \in 1..Len(lines) :
       lines[k].end = null
         => calculateIntersections(lines) = calculateIntersections(SubSeq(lines, 1, k - 1))

\* two complete lines with a stored intersection and a third line whose
\* second click is missing
C25_Witness ==
  /\ Len(lines) = 3
  /\ lines[3].end = null
  /\ Len(intersections) = 1
  /\ intersections = calculateIntersections(lines)

\* q is a point of the closed triangle abc: the three triangles q makes
\* with the sides have the area of abc between them
ClosedTriangleContains(q, a, b, c) ==
  Abs(Cross2(q, a, b)) + Abs(Cross2(q, b, c)) + Abs(Cross2(q, c, a)) = Abs(Cross2(a, b, c))

\* C26: for every non-degenerate triangle (v1, v2, v3), in either
\* orientation, pointInTriangle is true exactly for the points of the closed
\* triangle: interior points, points on an edge and the vertices.
C26_ClosedTriangle ==
  (Len(triPoints) = 4 /\ Cross2(triPoints[1], triPoints[2], triPoints[3]) # 0)
    => pointInTriangle(triPoints[4], triPoints[1], triPoints[2], triPoints[3])
         = ClosedTriangleContains(triPoints[4], triPoints[1], triPoints[2], triPoints[3])

\* a triangle of negative orientation and a point inside one of its edges
C26_Witness ==
  /\ Len(triPoints) = 4
  /\ Cross2(triPoints[1], triPoints[2], triPoints[3]) < 0
  /\ OnSegment(triPoints[1], triPoints[2], triPoints[4])
  /\ ~SamePos(triPoints[4], triPoints[1]) /\ ~SamePos(triPoints[4], triPoints[2])
  /\ pointInTriangle(triPoints[4], triPoints[1], triPoints[2], triPoints[3])

\* ------------------------------------------ the geodesic page's state
\* the selection a click on index is to leave
SelectionAfterClick(prev, index) ==
  LET selected == {prev[k] : k \in 1..Len(prev)}
  IN IF index \in selected THEN SelectSeq(prev, LAMBDA v : v # index)
     ELSE IF Cardinality(selected) < 2 THEN prev \o <<index>>
     ELSE <<index>>

\* C27: selectedPoints holds at most 2 indices and none twice; a click on a
\* selected index removes it, a click on an unselected index appends it
\* while fewer than 2 are selected and otherwise replaces the selection by
\* that index alone; a click while isDragging is true changes nothing.
C27_SelectionAtMostTwo ==
  [][/\ Len(selectedPoints') <= 2
     /\ \A k \in 1..Len(selectedPoints'), l \in 1..Len(selectedPoints') :
          k # l => selectedPoints'[k] # selectedPoints'[l]
     /\ geoHandlePointClick =>
          IF isDragging THEN selectedPoints' = selectedPoints /\ geodesic' = geodesic
          ELSE \E index \in GeoClickable :
                 selectedPoints' = SelectionAfterClick(selectedPoints, index)]_vars

\* two selected indices, the second clicked being the lower one, while a
\* drag is under way: a click now changes nothing
C27_Witness ==
  /\ Len(selectedPoints) = 2
  /\ selectedPoints[1] > selectedPoints[2]
  /\ isDragging

\* ------------------------------------------- the line-intersection page
\* the segment with start and end exchanged
Swapped(l) == Line(l.end, l.start)

C29_GeodesicOfSelection ==
  /\ (geodesic # null) <=> (Len(selectedPoints) = 2)
  /\ Len(selectedPoints) = 2 =>
       geodesic = computeSphericalGeodesic(basePoints(selectedPoints[1]),
                                           basePoints(selectedPoints[2]))

\* two indices selected, the higher one first, for which the order of the
\* two grid points changes the result
C29_Witness ==
  /\ Len(selectedPoints) = 2
  /\ selectedPoints[1] > selectedPoints[2]
  /\ geodesic # null
  /\ geodesic # computeSphericalGeodesic(basePoints(selectedPoints[2]),
                                         basePoints(selectedPoints[1]))

\* ------------------------------------- the geometric-primitives page
\* C28: activePoint is null or an index of the points list, so a mouse move
\* never writes past the end of the list.
C28_ActivePointInRange ==
  activePoint # null => activePoint.index < Len(primPoints)

====
